---- MODULE Spec2Model ----
(***************************************************************************)
(* Model of magtag_gateway (src/main.rs): the status-resolution engine     *)
(* NextUp::new, its helpers (venue-local time formatting, sleep_time, the  *)
(* game-id decoder), the Barracuda source and the /next and /either        *)
(* request handlers.                                                       *)
(*                                                                         *)
(* Instants are whole Unix seconds.  Text is modelled by real strings.     *)
(* Option<T> is a sequence of length 0 (None) or 1 (Some).  A JSON         *)
(* document is an Option of its parsed value: <<>> is a text that          *)
(* serde_json::from_str rejects.                                           *)
(***************************************************************************)
EXTENDS Integers, Sequences, FiniteSets, TLC

VARIABLES route, req, nhl, cuda, response, poll, decode

vars == <<route, req, nhl, cuda, response, poll, decode>>

-----------------------------------------------------------------------------
(* Option helpers *)

None == <<>>

Some(v) == <<v>>

IsSome(o) == Len(o) = 1

IsNone(o) == Len(o) = 0

UnwrapOr(o, d) == IF IsSome(o) THEN o[1] ELSE d

-----------------------------------------------------------------------------
(* Program constants *)

ONE_MINUTE_IN_SECONDS == 60

ONE_HOUR_IN_SECONDS == 60 * ONE_MINUTE_IN_SECONDS

TWO_HOURS_IN_SECONDS == 2 * ONE_HOUR_IN_SECONDS

TWENTY_MINUTES_IN_SECONDS == 20 * ONE_MINUTE_IN_SECONDS

CUDA_NEXT_UP == "Cuda Next Up"

SHARKS_NEXT_UP == "Sharks Next Up"

SHARKS_ID == 28

TEAM_NICKNAMES ==
    [i \in {1, 2, 3, 4, 5, 6, 7, 8, 9, 10, 12, 13, 14, 15, 16, 17, 18, 19, 20,
            21, 22, 23, 24, 25, 26, 28, 29, 30, 52, 54, 55, 56} |->
        CASE i = 1 -> "Devils"      [] i = 2 -> "Islanders"  [] i = 3 -> "Rangers"
          [] i = 4 -> "Flyers"      [] i = 5 -> "Penguins"   [] i = 6 -> "Bruins"
          [] i = 7 -> "Sabres"      [] i = 8 -> "Canadiens"  [] i = 9 -> "Senators"
          [] i = 10 -> "Leafs"      [] i = 12 -> "Canes"     [] i = 13 -> "Panthers"
          [] i = 14 -> "Lightning"  [] i = 15 -> "Capitals"  [] i = 16 -> "Blackhawks"
          [] i = 17 -> "Wings"      [] i = 18 -> "Predators" [] i = 19 -> "Blues"
          [] i = 20 -> "Flames"     [] i = 21 -> "Avalanche" [] i = 22 -> "Oilers"
          [] i = 23 -> "Canucks"    [] i = 24 -> "Ducks"     [] i = 25 -> "Stars"
          [] i = 26 -> "Kings"      [] i = 28 -> "Sharks"    [] i = 29 -> "Jackets"
          [] i = 30 -> "Wild"       [] i = 52 -> "Jets"      [] i = 54 -> "Coyotes"
          [] i = 55 -> "Knights"    [] i = 56 -> "Kraken"]

-----------------------------------------------------------------------------
(* Venue-local time: chrono_tz::US::Pacific, for instants of the year 2021 *)

\* 2021-03-14T10:00:00Z, start of Pacific daylight time
PacificDstStart == 1615716000

\* 2021-11-07T09:00:00Z, end of Pacific daylight time
PacificDstEnd == 1636275600

\* UTC offset of the venue at instant t, in seconds
PacificOffset(t) ==
    IF PacificDstStart <= t /\ t < PacificDstEnd
    THEN -(7 * ONE_HOUR_IN_SECONDS)
    ELSE -(8 * ONE_HOUR_IN_SECONDS)

\* DateTime::with_timezone(&Pacific): the venue-local civil second count
with_timezone_Pacific(t) == t + PacificOffset(t)

\* days since 1970-01-01 of a local second count (the NaiveDate of date())
LocalDays(local) == local \div (24 * ONE_HOUR_IN_SECONDS)

\* .date() of an instant projected into the venue timezone
PacificDate(t) == LocalDays(with_timezone_Pacific(t))

\* proleptic Gregorian civil date of a day count: [y, m, d]
CivilFromDays(days) ==
    LET z   == days + 719468
        era == z \div 146097
        doe == z - era * 146097
        yoe == (doe - doe \div 1460 + doe \div 36524 - doe \div 146096) \div 365
        doy == doe - (365 * yoe + yoe \div 4 - yoe \div 100)
        mp  == (5 * doy + 2) \div 153
        d   == doy - (153 * mp + 2) \div 5 + 1
        m   == IF mp < 10 THEN mp + 3 ELSE mp - 9
        y   == yoe + era * 400 + (IF m <= 2 THEN 1 ELSE 0)
    IN  [y |-> y, m |-> m, d |-> d]

MonthAbbr ==
    <<"Jan", "Feb", "Mar", "Apr", "May", "Jun",
      "Jul", "Aug", "Sep", "Oct", "Nov", "Dec">>

\* {:02}
\* {:02} that pads with a space
Pad2_space(n) == IF n < 10 THEN " " \o ToString(n) ELSE ToString(n)

Pad2(n) == IF n < 10 THEN "0" \o ToString(n) ELSE ToString(n)

\* strftime "%-I:%M%p" of a venue-local second count
FormatClock(local) ==
    LET sod == local % (24 * ONE_HOUR_IN_SECONDS)
        h24 == sod \div ONE_HOUR_IN_SECONDS
        mi  == (sod % ONE_HOUR_IN_SECONDS) \div ONE_MINUTE_IN_SECONDS
        h12 == IF h24 % 12 = 0 THEN 12 ELSE h24 % 12
    IN  ToString(h12) \o ":" \o Pad2(mi) \o (IF h24 < 12 THEN "AM" ELSE "PM")

\* strftime "%b %-d" of a venue-local second count
FormatMonthDay(local) ==
    LET c == CivilFromDays(LocalDays(local))
    IN  MonthAbbr[c.m] \o " " \o ToString(c.d)

\* format_date_time(&t.with_timezone(&Pacific))
format_date_time(t) == FormatClock(with_timezone_Pacific(t))

\* format_game_time_relative that drops the clock only on the day of the game
format_game_time_relative_tbd(date_time, utc_now, is_tdb) ==
    LET local == with_timezone_Pacific(date_time)
    IN  IF PacificDate(date_time) = PacificDate(utc_now)
        THEN IF is_tdb THEN "Today"
             ELSE "Today @ " \o FormatClock(local)
        ELSE FormatMonthDay(local) \o " @ " \o FormatClock(local)

\* format_game_time_relative(&date_time.with_timezone(&Pacific),
\*                           &utc_now.with_timezone(&Pacific), is_tdb)
format_game_time_relative(date_time, utc_now, is_tdb) ==
    LET local == with_timezone_Pacific(date_time)
    IN  IF PacificDate(date_time) = PacificDate(utc_now)
        THEN IF is_tdb THEN "Today"
             ELSE "Today @ " \o FormatClock(local)
        ELSE IF is_tdb THEN FormatMonthDay(local)
             ELSE FormatMonthDay(local) \o " @ " \o FormatClock(local)

\* min that returns the larger value
Min_larger(a, b) == IF a < b THEN b ELSE a

Min(a, b) == IF a < b THEN a ELSE b

\* sleep_time with the threshold test off by one (>= for >)
sleep_time_ge(date_time, utc_now) ==
    LET duration_until_game_seconds == date_time - utc_now
    IN  IF duration_until_game_seconds < 0
        THEN TWO_HOURS_IN_SECONDS
        ELSE IF duration_until_game_seconds >= TWENTY_MINUTES_IN_SECONDS
             THEN Min(duration_until_game_seconds - TWENTY_MINUTES_IN_SECONDS,
                      TWO_HOURS_IN_SECONDS)
             ELSE ONE_MINUTE_IN_SECONDS

\* Duration::num_seconds of (date_time - utc_now) is the plain difference
\* of two whole-second instants
sleep_time(date_time, utc_now) ==
    LET duration_until_game_seconds == date_time - utc_now
    IN  IF duration_until_game_seconds < 0
        THEN TWO_HOURS_IN_SECONDS
        ELSE IF duration_until_game_seconds > TWENTY_MINUTES_IN_SECONDS
             THEN Min(duration_until_game_seconds - TWENTY_MINUTES_IN_SECONDS,
                      TWO_HOURS_IN_SECONDS)
             ELSE ONE_MINUTE_IN_SECONDS

-----------------------------------------------------------------------------
(* Game identity decoder *)

\* PlayoffGameNumber::parse that leaves the round digit in the matchup
PlayoffGameNumber_parse_matchup(game_number_in) ==
    LET game_number == game_number_in % 10000
    IN  [round   |-> game_number \div 100,
         matchup |-> (game_number % 1000) \div 10,
         game    |-> game_number % 10]

PlayoffGameNumber_parse(game_number_in) ==
    LET game_number == game_number_in % 10000
    IN  [round   |-> game_number \div 100,
         matchup |-> (game_number % 100) \div 10,
         game    |-> game_number % 10]

GameType_parse(game_id) ==
    LET game_number == game_id % 100000
        game_type   == game_number \div 10000
    IN  CASE game_type = 1 -> [tag |-> "Preseason", n |-> game_number,
                               pgn |-> None]
          [] game_type = 3 -> [tag |-> "Playoff", n |-> game_number,
                               pgn |-> Some(PlayoffGameNumber_parse(game_number))]
          [] OTHER         -> [tag |-> "Regular", n |-> game_number,
                               pgn |-> None]

decode_game_id(game_id) ==
    Some([season |-> game_id \div 1000000, game_type |-> GameType_parse(game_id)])

\* formatted_next_up numbering a playoff game by its round
formatted_next_up_round(team, game_id) ==
    LET default_value == team \o " Next Up"
        decoded       == decode_game_id(game_id)
    IN  IF IsSome(decoded)
        THEN IF decoded[1].game_type.tag = "Playoff"
             THEN team \o " - Game " \o ToString(decoded[1].game_type.pgn[1].round)
             ELSE default_value
        ELSE default_value

formatted_next_up(team, game_id) ==
    LET default_value == team \o " Next Up"
        decoded       == decode_game_id(game_id)
    IN  IF IsSome(decoded)
        THEN IF decoded[1].game_type.tag = "Playoff"
             THEN team \o " - Game " \o ToString(decoded[1].game_type.pgn[1].game)
             ELSE default_value
        ELSE default_value

-----------------------------------------------------------------------------
(* Payloads and results *)

\* opponent_name deciding by the away team
opponent_name_by_away(teams, home_team) ==
    IF teams.away.team.id = home_team
    THEN "@ " \o teams.home.team.name
    ELSE "vs " \o teams.away.team.name

opponent_name(teams, home_team) ==
    IF teams.home.team.id = home_team
    THEN "vs " \o teams.away.team.name
    ELSE "@ " \o teams.home.team.name

\* the default payload with the two-hour fallback as its sleep
NextUp_default_long(sys_now) ==
    [top    |-> "No Team Name",
     middle |-> "No Games",
     bottom |-> "",
     time   |-> format_date_time(sys_now),
     sleep  |-> TWO_HOURS_IN_SECONDS,
     date   |-> sys_now]

\* impl Default for NextUp; sys_now is the instant Utc::now() returns inside
\* default(), which is not the utc_now handed to the engine
NextUp_default(sys_now) ==
    [top    |-> "No Team Name",
     middle |-> "No Games",
     bottom |-> "",
     time   |-> format_date_time(sys_now),
     sleep  |-> 900,
     date   |-> sys_now]

\* the payload slot of a result that carries none
NoPayload ==
    [top |-> "", middle |-> "", bottom |-> "", time |-> "", sleep |-> 0,
     date |-> 0]

Ok(p) == [kind |-> "ok", val |-> p, why |-> ""]

\* Err(anyhow::Error) with its context
Err(ctx) == [kind |-> "err", val |-> NoPayload, why |-> ctx]

\* a panic (expect on None): the call does not return
Panic(msg) == [kind |-> "panic", val |-> NoPayload, why |-> msg]

\* Status predicates
is_preview(status) == status.abstract_game_state = "Preview"

is_pregame(status) == status.detailed_state = "Pre-Game"

is_live(status) == status.abstract_game_state = "Live"

is_tbd(status) == status.detailed_state = "Scheduled (Time TBD)"

\* game_today comparing the UTC calendar days instead of the venue's
game_today_utc(schedule, utc_now) ==
    IF schedule.total_items < 1
    THEN FALSE
    ELSE LocalDays(schedule.dates[1].games[1].game_date) = LocalDays(utc_now)

\* NextGameSchedule::game_today
game_today(schedule, utc_now) ==
    IF schedule.total_items < 1
    THEN FALSE
    ELSE PacificDate(schedule.dates[1].games[1].game_date) = PacificDate(utc_now)

\* the branch of NextUp::new taken when line_schedule.game_today(utc_now)
NextUp_today(nickname, game, team_id, utc_now) ==
    IF IsNone(game.linescore)
    THEN Panic("linescore")
    ELSE
    LET first     == "1st"
        no_time   == "00:00"
        linescore == game.linescore[1]
        middle    == opponent_name(game.teams, team_id)
        sleep     == sleep_time(game.game_date, utc_now)
        payload(top, bottom) ==
            Ok([top    |-> top,
                middle |-> middle,
                bottom |-> bottom,
                time   |-> format_date_time(utc_now),
                sleep  |-> sleep,
                date   |-> game.game_date])
    IN  IF is_preview(game.status)
        THEN IF is_pregame(game.status)
             THEN payload("Pregame", "Live")
             ELSE payload(formatted_next_up(nickname, game.game_pk),
                          "Today @ " \o format_date_time(game.game_date))
        ELSE IF is_live(game.status)
        THEN IF IsNone(linescore.intermission_info)
             THEN Panic("intermission_info")
             ELSE
             LET intermission_info == linescore.intermission_info[1]
                 ordinal == UnwrapOr(linescore.current_period_ordinal, first)
             IN  IF intermission_info.in_intermission
                 THEN LET m == intermission_info.intermission_time_remaining \div 60
                          s == intermission_info.intermission_time_remaining - m * 60
                      IN  payload(ordinal \o " int|" \o ToString(m) \o ":" \o Pad2(s),
                                  "Live")
                 ELSE payload(ordinal \o " | " \o
                                UnwrapOr(linescore.current_period_time_remaining,
                                         no_time),
                              "Live")
        ELSE payload("Final", "")

\* the branch of NextUp::new taken otherwise: the next document is parsed
NextUp_next(nickname, next_response_string, team_id, utc_now, sys_now) ==
    IF IsNone(next_response_string)
    THEN Err("next schedule")
    ELSE
    LET schedule == next_response_string[1]
    IN  IF Len(schedule.teams) = 0
        THEN Panic("index out of bounds")
        ELSE
        LET next_game_schedule == schedule.teams[1].next_game_schedule
        IN  IF IsSome(next_game_schedule)
            THEN LET game == next_game_schedule[1].dates[1].games[1]
                 IN  Ok([top    |-> formatted_next_up(nickname, game.game_pk),
                         middle |-> opponent_name(game.teams, team_id),
                         bottom |-> format_game_time_relative(game.game_date, utc_now,
                                                              is_tbd(game.status)),
                         time   |-> format_date_time(utc_now),
                         sleep  |-> sleep_time(game.game_date, utc_now),
                         date   |-> game.game_date])
            ELSE Ok([NextUp_default(sys_now) EXCEPT !.top = nickname \o " Next Up"])

\* NextUp::new
NextUp_new(nickname, linescore_response_string, next_response_string, team_id, utc_now, sys_now) ==
    IF IsNone(linescore_response_string)
    THEN Err("line_schedule")
    ELSE
    LET line_schedule == linescore_response_string[1]
    IN  IF game_today(line_schedule, utc_now)
        THEN NextUp_today(nickname, line_schedule.dates[1].games[1], team_id, utc_now)
        ELSE NextUp_next(nickname, next_response_string, team_id, utc_now, sys_now)

\* NextUp::new_barracuda_event; games is a sequence of AhlGame
FirstAfter(games, utc_now) ==
    LET idx == {i \in 1..Len(games) : games[i].date > utc_now}
    IN  IF idx = {} THEN None
        ELSE Some(games[CHOOSE i \in idx : \A j \in idx : i <= j])

NextUp_new_barracuda_event(utc_now, games, sys_now) ==
    LET maybe_next_game == FirstAfter(games, utc_now)
    IN  IF IsSome(maybe_next_game)
        THEN LET next_game == maybe_next_game[1]
             IN  Ok([top    |-> CUDA_NEXT_UP,
                     middle |-> next_game.opponent_name,
                     bottom |-> format_game_time_relative(next_game.date, utc_now,
                                                          FALSE),
                     time   |-> format_date_time(utc_now),
                     sleep  |-> sleep_time(next_game.date, utc_now),
                     date   |-> next_game.date])
        ELSE Ok([NextUp_default(sys_now) EXCEPT !.top = CUDA_NEXT_UP])

\* Vec::sort_by on the date: a stable insertion of each event after the
\* events that are not later
RECURSIVE InsertByDate(_, _)
InsertByDate(event, sorted) ==
    IF sorted = <<>> THEN <<event>>
    ELSE IF Head(sorted).date <= event.date
         THEN <<Head(sorted)>> \o InsertByDate(event, Tail(sorted))
         ELSE <<event>> \o sorted

RECURSIVE sort_by_date(_)
sort_by_date(events) ==
    IF events = <<>> THEN <<>>
    ELSE InsertByDate(events[Len(events)],
                      sort_by_date(SubSeq(events, 1, Len(events) - 1)))

\* NextUp::new_event; events is the list read from EVENTS_TEXT
NextUp_new_event(utc_now, events, sys_now) ==
    LET maybe_event == FirstAfter(sort_by_date(events), utc_now)
    IN  IF IsSome(maybe_event)
        THEN LET event == maybe_event[1]
             IN  Ok([top    |-> SHARKS_NEXT_UP,
                     middle |-> event.text,
                     bottom |-> format_game_time_relative(event.date, utc_now, FALSE),
                     time   |-> format_date_time(utc_now),
                     sleep  |-> sleep_time(event.date, utc_now),
                     date   |-> event.date])
        ELSE Ok([NextUp_default(sys_now) EXCEPT !.top = SHARKS_NEXT_UP])

-----------------------------------------------------------------------------
(* Request handlers *)

nickname_of(team_id) ==
    IF team_id \in DOMAIN TEAM_NICKNAMES THEN TEAM_NICKNAMES[team_id] ELSE "Unknown"

\* get_nhl_next_up: a fetch is None when the read or the request failed,
\* else Some(document); utc_now is the handler's Utc::now()
get_nhl_next_up(team_id, next_fetch, line_fetch, utc_now, sys_now) ==
    IF IsNone(next_fetch) THEN Err("next fetch")
    ELSE IF IsNone(line_fetch) THEN Err("line fetch")
    ELSE NextUp_new(nickname_of(team_id), line_fetch[1], next_fetch[1], team_id,
                    utc_now, sys_now)

\* Result::ok(): Err becomes None
ok(result) == IF result.kind = "ok" THEN Some(result.val) ELSE None

\* Option::unwrap_or_default()
unwrap_or_default(o, sys_now) == UnwrapOr(o, NextUp_default(sys_now))

\* the selection with the comparison of the instants reversed
either_select_later(b_next, nhl_next, sys_now) ==
    IF IsNone(b_next)
    THEN unwrap_or_default(nhl_next, sys_now)
    ELSE IF IsNone(nhl_next)
    THEN unwrap_or_default(b_next, sys_now)
    ELSE IF nhl_next[1].date > b_next[1].date
         THEN nhl_next[1]
         ELSE b_next[1]

\* the selection of get_next_up_either between the two optional payloads
either_select(b_next, nhl_next, sys_now) ==
    IF IsNone(b_next)
    THEN unwrap_or_default(nhl_next, sys_now)
    ELSE IF IsNone(nhl_next)
    THEN unwrap_or_default(b_next, sys_now)
    ELSE IF nhl_next[1].date < b_next[1].date
         THEN nhl_next[1]
         ELSE b_next[1]

\* load_games_from_page: a page is the sequence of its div.entry elements,
\* given by the text of home-or-away and the instant and opponent the date,
\* time and team-title texts parse to; only home games are kept, in page order
RECURSIVE load_games_from_page(_)
load_games_from_page(page) ==
    IF page = <<>> THEN <<>>
    ELSE LET item == Head(page)
             rest == load_games_from_page(Tail(page))
         IN  IF item.home_or_away \in {"Home", "HOME", "home"}
             THEN <<[date |-> item.date, opponent_name |-> item.opponent]>> \o rest
             ELSE rest

\* an HTTP 200 with the payload as JSON body
Response200(payload) == [kind |-> "ok", body |-> payload]

\* the handler panicked: the client gets no response
ResponseNone == [kind |-> "panic", body |-> NoPayload]

-----------------------------------------------------------------------------
(* Inputs *)

\* length bound of the scraped Barracuda schedule
MaxGames == 2

\* bound of the seconds that pass between two reads of the system clock
MaxClockStep == 1

TeamOf(id) ==
    [id |-> id, name |-> IF id = 28 THEN "San Jose Sharks" ELSE "Pittsburgh Penguins"]

TeamsSet ==
    {[home |-> [team |-> TeamOf(28)], away |-> [team |-> TeamOf(5)]],
     [home |-> [team |-> TeamOf(5)], away |-> [team |-> TeamOf(28)]]}

\* a regular-season and a playoff identifier
GamePks == {2021020181, 2021030113}

\* Nov 6 7:30PM PDT, Nov 7 1:00PM PST, Nov 7 7:00PM PST, Nov 9 7:30PM PST
GameDates == {1636252200, 1636318800, 1636340400, 1636515000}

\* Nov 6 7:15PM PDT, Nov 7 11:00:30AM PST, Nov 7 6:39:59PM PST,
\* Nov 7 11:59:59PM PST
Nows == {1636251300, 1636311630, 1636339199, 1636358399}

Intermission(active, remaining) ==
    [in_intermission |-> active, intermission_time_remaining |-> remaining]

Line(ordinal, remaining, intermission) ==
    [current_period_ordinal        |-> ordinal,
     current_period_time_remaining |-> remaining,
     intermission_info             |-> intermission]

Linescores ==
    {None,
     Some(Line(None, None, None)),
     Some(Line(None, None, Some(Intermission(FALSE, 0)))),
     Some(Line(None, None, Some(Intermission(TRUE, 0)))),
     Some(Line(Some("2nd"), Some("18:32"), Some(Intermission(FALSE, 0)))),
     Some(Line(Some("3rd"), Some("END"), Some(Intermission(TRUE, 761))))}

TodayStatuses ==
    {[abstract_game_state |-> "Preview", detailed_state |-> "Pre-Game"],
     [abstract_game_state |-> "Preview", detailed_state |-> "Scheduled"],
     [abstract_game_state |-> "Live", detailed_state |-> "In Progress"],
     [abstract_game_state |-> "Final", detailed_state |-> "Final"],
     [abstract_game_state |-> "Other", detailed_state |-> "Postponed"]}

NextStatuses ==
    {[abstract_game_state |-> "Preview", detailed_state |-> "Scheduled"],
     [abstract_game_state |-> "Preview", detailed_state |-> "Scheduled (Time TBD)"]}

Games(pks, dates, statuses, linescores) ==
    [game_pk : pks, game_date : dates, teams : TeamsSet, status : statuses,
     linescore : linescores]

\* a NextGameSchedule holding one game
ScheduleOf(game) == [total_items |-> 1, dates |-> <<[games |-> <<game>>]>>]

\* the schedule with no items (EMPTY_LINESCORE of the tests)
EmptySchedule == [total_items |-> 0, dates |-> <<>>]

\* line documents: unparsable, empty, or one game
LineDocs(games) == {None, Some(EmptySchedule)} \cup {Some(ScheduleOf(g)) : g \in games}

\* the Response of the teams endpoint for one team
ResponseOf(next_game_schedule) ==
    [teams |-> <<[next_game_schedule |-> next_game_schedule]>>]

\* next documents: unparsable, no next game, or one game
NextDocs(games) ==
    {None, Some(ResponseOf(None))} \cup {Some(ResponseOf(Some(ScheduleOf(g)))) : g \in games}

\* a fetch fails or delivers a document
Fetches(docs) == {None} \cup {Some(d) : d \in docs}

TodayGames == Games(GamePks, GameDates, TodayStatuses, Linescores)

NextGames == Games(GamePks, GameDates, NextStatuses, {None})

\* the upstream reports a game as Live or Final only once its scheduled start
\* has passed
StartedIfPlayed(line_fetch, utc_now) ==
    (IsSome(line_fetch) /\ IsSome(line_fetch[1]) /\ line_fetch[1][1].total_items >= 1)
    => LET game == line_fetch[1][1].dates[1].games[1]
       IN  game.status.abstract_game_state \in {"Live", "Final"}
              => game.game_date <= utc_now

\* --team of the command line and :team of the path (None when absent or
\* not a number)
OptTeams == {None, Some(99)}

TeamParams == {None, Some(5)}

\* Barracuda schedule entries: Nov 6 8:00PM PDT, Nov 7 7:00PM PST,
\* Nov 9 8:00PM PST
CudaDates == {1636254000, 1636340400, 1636516800}

CudaOpponent(date) ==
    CASE date = 1636254000 -> "Henderson Silver Knights"
      [] date = 1636340400 -> "Ontario Reign"
      [] OTHER             -> "Colorado Eagles"

CudaEntries ==
    {[home_or_away |-> h, date |-> d, opponent |-> CudaOpponent(d)] :
        h \in {"Home", "Away"}, d \in CudaDates}

\* pages of at most MaxGames entries, in any order
Pages == UNION {[1..n -> CudaEntries] : n \in 0..MaxGames}

\* the clock of GET /barracuda: the instants of Nows and the start of the
\* Nov 7 game
CudaNows == Nows \cup {1636340400}

\* dated events of the list: Nov 7 11:00:30AM PST (an instant of Nows),
\* Nov 7 7:00PM PST, Nov 9 8:00PM PST
EventDates == {1636311630, 1636340400, 1636516800}

EventText(date) ==
    CASE date = 1636311630 -> "Tech CU Arena Fan Reveal"
      [] date = 1636340400 -> "Sharks365 Season Preview"
      [] OTHER             -> "Fan Fest"

Events == {[text |-> EventText(d), date |-> d] : d \in EventDates}

\* event lists of at most MaxGames events, in any order
EventLists == UNION {[1..n -> Events] : n \in 0..MaxGames}

\* the inputs of the NHL side of /either
EitherTodayGames ==
    {g \in Games({2021020181}, GameDates,
                 {[abstract_game_state |-> "Preview", detailed_state |-> "Scheduled"],
                  [abstract_game_state |-> "Final", detailed_state |-> "Final"]},
                 {None, Some(Line(None, None, None))}) :
        g.teams.home.team.id = SHARKS_ID}

EitherNextGames ==
    {g \in Games({2021020181}, GameDates,
                 {[abstract_game_state |-> "Preview", detailed_state |-> "Scheduled"]},
                 {None}) :
        g.teams.home.team.id = SHARKS_ID}

-----------------------------------------------------------------------------
(* State machine: one request at a time *)

NoResult == [kind |-> "none", val |-> NoPayload, why |-> ""]

NoReq == [team_id |-> 0]

\* no identifier has been decoded
NoDecode ==
    [game_id |-> 0, season |-> 0, code |-> 0, round |-> 0, matchup |-> 0,
     game |-> 0, done |-> FALSE, result |-> None]

\* the display client before its first poll
NoPoll == [event |-> 0, at |-> 0, sleep |-> 0, polled |-> FALSE]

Init ==
    /\ route = "idle"
    /\ req = NoReq
    /\ nhl = NoResult
    /\ cuda = None
    /\ response = [kind |-> "none", body |-> NoPayload]
    /\ poll = NoPoll
    /\ decode = NoDecode

\* get_next_up: GET /next and /next/:team
GetNextUp ==
    /\ route = "idle"
    /\ \E team_id_param \in TeamParams, opt_team \in OptTeams,
          next_fetch \in Fetches(NextDocs(NextGames)),
          line_fetch \in Fetches(LineDocs(TodayGames)),
          utc_now \in Nows, step \in 0..MaxClockStep :
        LET team_id == UnwrapOr(team_id_param, UnwrapOr(opt_team, SHARKS_ID))
            sys_now == utc_now + step
            result  == get_nhl_next_up(team_id, next_fetch, line_fetch, utc_now,
                                       sys_now)
        IN  /\ StartedIfPlayed(line_fetch, utc_now)
            /\ route' = "next"
            /\ req' = [team_id |-> team_id, team_id_param |-> team_id_param,
                       opt_team |-> opt_team, next_fetch |-> next_fetch,
                       line_fetch |-> line_fetch, utc_now |-> utc_now,
                       sys_now |-> sys_now]
            /\ nhl' = result
            /\ cuda' = None
            /\ response' = IF result.kind = "panic"
                           THEN ResponseNone
                           ELSE Response200(unwrap_or_default(ok(result), sys_now))
    /\ UNCHANGED <<poll, decode>>

\* the response has been sent (or the connection dropped)
Finish ==
    /\ route # "idle"
    /\ route' = "idle"
    /\ req' = NoReq
    /\ nhl' = NoResult
    /\ cuda' = None
    /\ response' = [kind |-> "none", body |-> NoPayload]
    /\ UNCHANGED <<poll, decode>>

\* get_barracuda_next_up: GET /barracuda
GetBarracudaNextUp ==
    /\ route = "idle"
    /\ \E page_fetch \in Fetches(Pages), utc_now \in CudaNows, step \in 0..MaxClockStep :
        LET sys_now == utc_now + step
            next == IF IsSome(page_fetch)
                    THEN NextUp_new_barracuda_event(
                             utc_now, load_games_from_page(page_fetch[1]), sys_now).val
                    ELSE [NextUp_default(sys_now) EXCEPT !.top = CUDA_NEXT_UP]
        IN  /\ route' = "barracuda"
            /\ req' = [team_id |-> 0, page_fetch |-> page_fetch,
                       utc_now |-> utc_now, sys_now |-> sys_now]
            /\ nhl' = NoResult
            /\ cuda' = Some(next)
            /\ response' = Response200(next)
    /\ UNCHANGED <<poll, decode>>

\* get_next_up_either: GET /either.  The Barracuda page is fetched and
\* resolved first (clock read b_now), then the NHL side (clock read nhl_now)
GetNextUpEither ==
    /\ route = "idle"
    /\ \E page_fetch \in Fetches(Pages),
          next_fetch \in Fetches(NextDocs(EitherNextGames)),
          line_fetch \in Fetches(LineDocs(EitherTodayGames)),
          b_now \in Nows, step \in 0..MaxClockStep :
        LET nhl_now == b_now + step
            b_next == IF IsSome(page_fetch)
                      THEN ok(NextUp_new_barracuda_event(
                                  b_now, load_games_from_page(page_fetch[1]), nhl_now))
                      ELSE None
            team_id == SHARKS_ID
            result == get_nhl_next_up(team_id, next_fetch, line_fetch, nhl_now,
                                      nhl_now)
        IN  /\ StartedIfPlayed(line_fetch, nhl_now)
            /\ route' = "either"
            /\ req' = [team_id |-> team_id, page_fetch |-> page_fetch,
                       next_fetch |-> next_fetch, line_fetch |-> line_fetch,
                       utc_now |-> b_now, sys_now |-> nhl_now]
            /\ nhl' = result
            /\ cuda' = b_next
            /\ response' = IF result.kind = "panic"
                           THEN ResponseNone
                           ELSE Response200(either_select(b_next, ok(result), nhl_now))
    /\ UNCHANGED <<poll, decode>>

Next == GetNextUp \/ Finish

Spec == Init /\ [][Next]_vars

\* the /barracuda and /either routes
NextEither == GetBarracudaNextUp \/ GetNextUpEither \/ Finish

SpecEither == Init /\ [][NextEither]_vars

-----------------------------------------------------------------------------
(* The display client: it polls, sleeps the recommended seconds, polls again *)

\* bound of the seconds before the event at which the client starts
MaxLead == 9000

\* bound of the seconds after the event at which the client still polls
MaxLag == 120

\* the event the client follows: Nov 7 7:00PM PST
PollEvents == {1636340400}

InitPoll ==
    /\ route = "idle"
    /\ req = NoReq
    /\ nhl = NoResult
    /\ cuda = None
    /\ response = [kind |-> "none", body |-> NoPayload]
    /\ decode = NoDecode
    /\ \E event \in PollEvents, lead \in (0 - MaxLag)..MaxLead :
        poll = [event |-> event, at |-> event - lead, sleep |-> 0, polled |-> FALSE]

\* the client wakes sleep seconds after its last poll and is told the next
\* sleep, which is sleep_time of the event and the instant of the poll
Poll ==
    /\ poll.at + poll.sleep <= poll.event + MaxLag
    /\ poll' = [event  |-> poll.event,
                at     |-> poll.at + poll.sleep,
                sleep  |-> sleep_time(poll.event, poll.at + poll.sleep),
                polled |-> TRUE]
    /\ UNCHANGED <<route, req, nhl, cuda, response, decode>>

NextPoll == Poll

SpecPoll == InitPoll /\ [][NextPoll]_vars

\* the client keeps polling: a due poll is eventually made
SpecPollFair == InitPoll /\ [][NextPoll]_vars /\ WF_vars(Poll)

-----------------------------------------------------------------------------
(* The secondary sources: /events and /barracuda (SpecSources) *)

\* get_events: GET /events
GetEvents ==
    /\ route = "idle"
    /\ \E events \in EventLists, utc_now \in Nows, step \in 0..MaxClockStep :
        LET sys_now == utc_now + step
            next    == NextUp_new_event(utc_now, events, sys_now).val
        IN  /\ route' = "events"
            /\ req' = [team_id |-> 0, events |-> events, utc_now |-> utc_now,
                       sys_now |-> sys_now]
            /\ nhl' = NoResult
            /\ cuda' = None
            /\ response' = Response200(next)
    /\ UNCHANGED <<poll, decode>>

NextSources == GetEvents \/ GetBarracudaNextUp \/ Finish

SpecSources == Init /\ [][NextSources]_vars

-----------------------------------------------------------------------------
(* The /next route during an intermission (SpecClock) *)

MaxIntermissionSeconds == 3700

\* currentPeriodOrdinal of the linescore, absent or present
Ordinals == {None, Some("1st"), Some("2nd"), Some("OT")}

\* a game in progress at home, started Nov 6 7:30PM PDT or Nov 7 1:00PM PST
IntermissionGames(ordinal, remaining) ==
    {g \in Games({2021020181}, {1636252200, 1636318800},
                 {[abstract_game_state |-> "Live", detailed_state |-> "In Progress"]},
                 {Some(Line(ordinal, Some("END"),
                            Some(Intermission(TRUE, remaining))))}) :
        g.teams.home.team.id = SHARKS_ID}

\* GET /next while the game of today is in an intermission
GetNextUpIntermission ==
    /\ route = "idle"
    /\ \E ordinal \in Ordinals, remaining \in 0..MaxIntermissionSeconds,
          utc_now \in Nows, step \in 0..MaxClockStep :
       \E game \in IntermissionGames(ordinal, remaining) :
        LET team_id    == SHARKS_ID
            sys_now    == utc_now + step
            next_fetch == Some(Some(ResponseOf(None)))
            line_fetch == Some(Some(ScheduleOf(game)))
            result     == get_nhl_next_up(team_id, next_fetch, line_fetch, utc_now,
                                          sys_now)
        IN  /\ StartedIfPlayed(line_fetch, utc_now)
            /\ route' = "next"
            /\ req' = [team_id |-> team_id, team_id_param |-> None,
                       opt_team |-> None, next_fetch |-> next_fetch,
                       line_fetch |-> line_fetch, utc_now |-> utc_now,
                       sys_now |-> sys_now]
            /\ nhl' = result
            /\ cuda' = None
            /\ response' = IF result.kind = "panic"
                           THEN ResponseNone
                           ELSE Response200(unwrap_or_default(ok(result), sys_now))
    /\ UNCHANGED <<poll, decode>>

NextClock == GetNextUpIntermission \/ Finish

SpecClock == Init /\ [][NextClock]_vars

-----------------------------------------------------------------------------
(* The decoder applied to identifiers (SpecDecode) *)

Seasons == {0, 2020, 2021}

\* the two digits after the season: the codes of the schedule (01 preseason,
\* 02 regular, 03 playoff, 04 all-star) and codes it does not use
PhaseCodes == {0, 1, 2, 3, 4, 10, 11, 13, 31, 99}

Digits == 0..9

\* the identifier written in base 10 as SSSS TT 0rmg
GameIdOf(season, code, r, m, g) ==
    season * 1000000 + code * 10000 + r * 100 + m * 10 + g

InitDecode ==
    /\ route = "idle"
    /\ req = NoReq
    /\ nhl = NoResult
    /\ cuda = None
    /\ response = [kind |-> "none", body |-> NoPayload]
    /\ poll = NoPoll
    /\ \E season \in Seasons, code \in PhaseCodes, r \in Digits, m \in Digits,
          g \in Digits :
        decode = [game_id |-> GameIdOf(season, code, r, m, g),
                  season |-> season, code |-> code, round |-> r,
                  matchup |-> m, game |-> g, done |-> FALSE, result |-> None]

\* decode_game_id applied to the identifier
DecodeGameId ==
    /\ ~decode.done
    /\ decode' = [decode EXCEPT !.done = TRUE,
                                !.result = decode_game_id(decode.game_id)]
    /\ UNCHANGED <<route, req, nhl, cuda, response, poll>>

NextDecode == DecodeGameId

SpecDecode == InitDecode /\ [][NextDecode]_vars

-----------------------------------------------------------------------------
(* Properties of the engine, checked on the /next route (Spec) *)

\* both documents were fetched and the line document parsed
EngineRan ==
    /\ route = "next"
    /\ IsSome(req.next_fetch)
    /\ IsSome(req.line_fetch)
    /\ IsSome(req.line_fetch[1])

TodaySchedule == req.line_fetch[1][1]

TodayGame == TodaySchedule.dates[1].games[1]

\* the today snapshot holds an item whose start is on the venue-local day of now
TodayGoverns ==
    /\ EngineRan
    /\ TodaySchedule.total_items >= 1
    /\ PacificDate(TodayGame.game_date) = PacificDate(req.utc_now)

NextParsed == IsSome(req.next_fetch[1])

NextSchedule == req.next_fetch[1][1].teams[1].next_game_schedule

\* the next document carries a scheduled game
NextHasGame == NextParsed /\ IsSome(NextSchedule)

NextGame == NextSchedule[1].dates[1].games[1]

\* the today snapshot does not govern and the next game does
NextGoverns == EngineRan /\ ~TodayGoverns /\ NextHasGame

\* C1: the today snapshot governs exactly when it has an item that starts on
\* the venue-local day of now; the outcome is then the same for every next
\* document, unparsable and empty ones included.  Otherwise a game carried by
\* the next document governs.
C1_SourceSelection ==
    /\ TodayGoverns =>
          /\ nhl = NextUp_today(nickname_of(req.team_id), TodayGame, req.team_id,
                                req.utc_now)
          /\ \A next_doc \in NextDocs(NextGames) :
                NextUp_new(nickname_of(req.team_id), req.line_fetch[1], next_doc,
                           req.team_id, req.utc_now, req.sys_now) = nhl
    /\ NextGoverns =>
          /\ nhl.kind = "ok"
          /\ nhl = NextUp_next(nickname_of(req.team_id), req.next_fetch[1],
                               req.team_id, req.utc_now, req.sys_now)
          /\ nhl.val.date = NextGame.game_date
          /\ nhl.val.middle \in {"vs " \o NextGame.teams.away.team.name,
                                 "@ " \o NextGame.teams.home.team.name}

\* today governs with a payload while the next document names another game
C1_Witness ==
    /\ TodayGoverns
    /\ nhl.kind = "ok"
    /\ NextHasGame
    /\ NextGame.game_date # TodayGame.game_date
    /\ nhl.val.date = TodayGame.game_date

\* C2: with no item in the today snapshot and no game in the next snapshot the
\* resolution succeeds with "<TeamLabel> Next Up" / "No Games" / "" and a sleep
\* of 900 seconds, for every now and team.
C2_DefaultPayload ==
    (/\ EngineRan
     /\ TodaySchedule.total_items = 0
     /\ NextParsed
     /\ IsNone(NextSchedule))
    => /\ nhl.kind = "ok"
       /\ nhl.val.top = nickname_of(req.team_id) \o " Next Up"
       /\ nhl.val.middle = "No Games"
       /\ nhl.val.bottom = ""
       /\ nhl.val.sleep = 900

\* both snapshots absent, for a team without a nickname
C2_Witness ==
    /\ EngineRan
    /\ TodaySchedule.total_items = 0
    /\ NextParsed
    /\ IsNone(NextSchedule)
    /\ req.team_id = 99
    /\ nhl.val.top = "Unknown Next Up"
    /\ response.body.middle = "No Games"

Phase == TodayGame.status.abstract_game_state

\* C3: a governing today snapshot with Phase=Final resolves to top "Final"
\* and an empty bottom, whichever of linescore, ordinal, remaining time and
\* intermission are present or absent.
C3_FinalPayload ==
    (TodayGoverns /\ Phase = "Final")
    => /\ nhl.kind = "ok"
       /\ nhl.val.top = "Final"
       /\ nhl.val.bottom = ""

\* C4: a governing today game that is Live gets the one-minute sleep, also
\* after its scheduled start; the two-hour fallback is not given to a started
\* game that is Live or Final.
C4_LiveSleepShort ==
    /\ (TodayGoverns /\ Phase = "Live" /\ nhl.kind = "ok")
          => nhl.val.sleep = ONE_MINUTE_IN_SECONDS
    /\ (TodayGoverns /\ Phase \in {"Live", "Final"} /\ nhl.kind = "ok"
          /\ TodayGame.game_date < req.utc_now)
          => nhl.val.sleep # TWO_HOURS_IN_SECONDS

HasLinescore == IsSome(TodayGame.linescore)

TodayLine == TodayGame.linescore[1]

IntermissionActive ==
    /\ HasLinescore
    /\ IsSome(TodayLine.intermission_info)
    /\ TodayLine.intermission_info[1].in_intermission

OrdinalText == UnwrapOr(TodayLine.current_period_ordinal, "1st")

RemainingText == UnwrapOr(TodayLine.current_period_time_remaining, "00:00")

IntermissionClock ==
    LET n == TodayLine.intermission_info[1].intermission_time_remaining
    IN  ToString(n \div 60) \o ":" \o Pad2(n % 60)

TopBottom(top, bottom) ==
    /\ nhl.kind = "ok"
    /\ nhl.val.top = top
    /\ nhl.val.bottom = bottom

\* C5: when today governs, (top, bottom) is fixed by one of five states:
\* Preview with PreGame, Preview without, Live in intermission, Live playing,
\* Final; absent ordinal and clock read "1st" and "00:00"; top is "Final" only
\* when Phase=Final.  (A Live snapshot without linescore is left open.)
C5_FiveStates ==
    TodayGoverns =>
       /\ (Phase = "Preview" /\ is_pregame(TodayGame.status))
             => TopBottom("Pregame", "Live")
       /\ (Phase = "Preview" /\ ~is_pregame(TodayGame.status))
             => TopBottom(formatted_next_up(nickname_of(req.team_id),
                                            TodayGame.game_pk),
                          "Today @ " \o format_date_time(TodayGame.game_date))
       /\ (Phase = "Live" /\ IntermissionActive)
             => TopBottom(OrdinalText \o " int|" \o IntermissionClock, "Live")
       /\ (Phase = "Live" /\ HasLinescore /\ ~IntermissionActive)
             => TopBottom(OrdinalText \o " | " \o RemainingText, "Live")
       /\ Phase = "Final" => TopBottom("Final", "")
       /\ (nhl.kind = "ok" /\ nhl.val.top = "Final") => Phase = "Final"

\* a game governs the payload: today's, else the next document's
GameGoverns == (TodayGoverns \/ NextGoverns) /\ nhl.kind = "ok"

GoverningTeams == IF TodayGoverns THEN TodayGame.teams ELSE NextGame.teams

\* C6 as stated: middle is "@ " + homeName exactly when the queried team is
\* the away team, and "vs " + awayName in every other case.
C6_AwayDecides ==
    GameGoverns =>
       nhl.val.middle = IF req.team_id = GoverningTeams.away.team.id
                        THEN "@ " \o GoverningTeams.home.team.name
                        ELSE "vs " \o GoverningTeams.away.team.name

\* C6 amended: middle is "vs " + awayName exactly when the queried team is
\* the home team, and "@ " + homeName in every other case, in the today-governed
\* and in the next-governed branch.
C6_HomeDecides ==
    GameGoverns =>
       /\ (req.team_id = GoverningTeams.home.team.id
             => nhl.val.middle = "vs " \o GoverningTeams.away.team.name)
       /\ (req.team_id # GoverningTeams.home.team.id
             => nhl.val.middle = "@ " \o GoverningTeams.home.team.name)

\* a team that plays in neither side of the governing game is shown "@ home"
C6_Witness ==
    /\ GameGoverns
    /\ req.team_id \notin {GoverningTeams.home.team.id, GoverningTeams.away.team.id}
    /\ nhl.val.middle = "@ " \o GoverningTeams.home.team.name

-----------------------------------------------------------------------------
(* Properties of sleep_time, checked on the polling client (SpecPoll) *)

\* whole seconds from the last poll to the event
PollD == poll.event - poll.at

\* C7: sleepSeconds depends on d = eventInstant - now only: 7200 for d < 0,
\* min(d - 1200, 7200) for d > 1200, 60 for 0 <= d <= 1200; above the
\* threshold it does not grow as d shrinks.
C7_SleepPolicy ==
    poll.polled =>
       /\ PollD < 0 => poll.sleep = 7200
       /\ PollD > 1200 => poll.sleep = Min(PollD - 1200, 7200)
       /\ (0 <= PollD /\ PollD <= 1200) => poll.sleep = 60
       /\ \A d \in 1201..PollD : sleep_time(poll.event, poll.event - d) <= poll.sleep
       /\ \A event \in PollEvents :
             sleep_time(event + 1, event + 1 - PollD) = poll.sleep

\* a poll above the threshold whose sleep is below the cap, and the last
\* second before the threshold
C7_Witness ==
    /\ poll.polled
    /\ PollD = 1201
    /\ poll.sleep = 1

\* the client has polled at an instant before the event
PolledBefore == poll.polled /\ PollD > 0

\* C18: a client that polls before the event and again after the recommended
\* sleep never sleeps past the near-horizon window: each sleep is between 1
\* and 7200 seconds, above 20 minutes the next poll is no later than 20
\* minutes before the event, so the client comes within 20 minutes of the
\* event, and from there it polls every 60 seconds, with a poll in the last
\* 60 seconds before the event.
C18_PollingLoop ==
    /\ [](PolledBefore =>
             /\ 1 <= poll.sleep
             /\ poll.sleep <= 7200
             /\ PollD > 1200 => poll.at + poll.sleep <= poll.event - 1200
             /\ PollD <= 1200 => poll.sleep = 60)
    /\ [][(PolledBefore /\ PollD <= 1200) => poll'.at = poll.at + 60]_vars
    /\ (PollD > 1200) ~> (poll.polled /\ 0 <= PollD /\ PollD <= 1200)
    /\ (PollD > 0) ~> (PolledBefore /\ PollD <= 60)

\* a poll in the last 60 seconds before the event
C18_Witness ==
    /\ PolledBefore
    /\ PollD = 60
    /\ poll.sleep = 60

-----------------------------------------------------------------------------
(* Properties of the selection of /either (SpecEither) *)

\* the handler reached its selection: the NHL side returned Ok or Err
EitherRan == route = "either" /\ nhl.kind \in {"ok", "err"}

CudaHasEvent == IsSome(cuda) /\ cuda[1].middle # "No Games"

NhlHasEvent == nhl.kind = "ok" /\ nhl.val.middle # "No Games"

\* C9: when at least one source resolves to an actual upcoming event the
\* merged payload is the soonest such event, never the "No Games" default of
\* the other source.
C9_NoGamesOnlyWhenAllEmpty ==
    (EitherRan /\ (CudaHasEvent \/ NhlHasEvent)) =>
       /\ response.body.middle # "No Games"
       /\ (CudaHasEvent /\ ~NhlHasEvent) => response.body = cuda[1]
       /\ (NhlHasEvent /\ ~CudaHasEvent) => response.body = nhl.val

-----------------------------------------------------------------------------
(* Purity of the engine (Spec) *)

\* C10: the resolution is a function of (today, next, team, label, now)
\* alone, and currentTime is the venue-local clock string of now in the
\* today-governed, the next-governed and the default branch.
C10_PureAndTimeOfNow ==
    (EngineRan /\ nhl.kind = "ok") =>
       /\ nhl.val.time = format_date_time(req.utc_now)
       /\ \A step \in 0..MaxClockStep :
             NextUp_new(nickname_of(req.team_id), req.line_fetch[1],
                        req.next_fetch[1], req.team_id, req.utc_now,
                        req.utc_now + step) = nhl

-----------------------------------------------------------------------------
(* Error handling of /next (Spec) *)

\* C11: a fetch error, an unreadable file or an unparsable document on the
\* /next path is answered with a successful response that carries the payload
\* of the both-inputs-absent case: "<TeamLabel> Next Up", "No Games", "", 900.
C11_FailureGivesTeamDefault ==
    (route = "next" /\ nhl.kind = "err") =>
       /\ response.kind = "ok"
       /\ response.body.top = nickname_of(req.team_id) \o " Next Up"
       /\ response.body.middle = "No Games"
       /\ response.body.bottom = ""
       /\ response.body.sleep = 900

-----------------------------------------------------------------------------
(* Labels and relative dates of the engine (Spec) *)

\* the identifier of the governing game, sliced in base 10
GoverningPk == IF TodayGoverns THEN TodayGame.game_pk ELSE NextGame.game_pk

\* the top line is a next-up label: next governs, or today governs a
\* Preview game that is not in PreGame
TopIsNextUpLabel ==
    /\ GameGoverns
    /\ TodayGoverns => (Phase = "Preview" /\ ~is_pregame(TodayGame.status))

C17_RelativeDate ==
    (NextGoverns /\ nhl.kind = "ok") =>
       LET local   == with_timezone_Pacific(NextGame.game_date)
           sameDay == PacificDate(NextGame.game_date) = PacificDate(req.utc_now)
           tbd     == NextGame.status.detailed_state = "Scheduled (Time TBD)"
           day     == IF sameDay THEN "Today" ELSE FormatMonthDay(local)
           clock   == IF tbd THEN "" ELSE " @ " \o FormatClock(local)
       IN  nhl.val.bottom = day \o clock

\* a TimeTBD game two days ahead shows only its date, a timed one its clock
C17_Witness ==
    /\ NextGoverns
    /\ nhl.kind = "ok"
    /\ NextGame.game_date = 1636515000
    /\ \/ (is_tbd(NextGame.status) /\ nhl.val.bottom = "Nov 9")
       \/ (~is_tbd(NextGame.status) /\ nhl.val.bottom = "Nov 9 @ 7:30PM")

-----------------------------------------------------------------------------
(* Properties of the secondary sources (SpecSources) *)

\* the entries of the source of the request, in the order of the source
SourceEntries ==
    IF route = "events"
    THEN [i \in DOMAIN req.events |->
             [date |-> req.events[i].date, middle |-> req.events[i].text]]
    ELSE IF IsSome(req.page_fetch)
    THEN LET games == load_games_from_page(req.page_fetch[1])
         IN  [i \in DOMAIN games |->
                 [date |-> games[i].date, middle |-> games[i].opponent_name]]
    ELSE <<>>

SourceLabel == IF route = "events" THEN SHARKS_NEXT_UP ELSE CUDA_NEXT_UP

\* C15: each secondary source answers with its fixed top label and the entry
\* that is the earliest of the entries strictly after now (never one at or
\* before now); with no entry after now it answers the default payload under
\* that label.
C15_EarliestAfterNow ==
    (route \in {"events", "barracuda"}) =>
       LET after == {i \in DOMAIN SourceEntries :
                        SourceEntries[i].date > req.utc_now}
           body  == response.body
       IN  /\ response.kind = "ok"
           /\ body.top = SourceLabel
           /\ after = {} =>
                 /\ body.middle = "No Games"
                 /\ body.bottom = ""
                 /\ body.sleep = 900
           /\ after # {} =>
                 /\ body.date > req.utc_now
                 /\ \A i \in after : body.date <= SourceEntries[i].date
                 /\ \E i \in after : /\ body.date = SourceEntries[i].date
                                     /\ body.middle = SourceEntries[i].middle

-----------------------------------------------------------------------------
(* Properties of the intermission clock (SpecClock) *)

IntermissionSeconds == TodayLine.intermission_info[1].intermission_time_remaining

\* C12: a Live game in intermission with n seconds remaining and ordinal o
\* ("1st" when absent) has the clock text "o int|M:SS", M = n div 60 unpadded,
\* SS = n mod 60 on two digits; 761 gives "1st int|12:41", 0 gives
\* "1st int|0:00". The text is the top line of the payload.
C12_IntermissionClock ==
    (TodayGoverns /\ Phase = "Live" /\ IntermissionActive) =>
       LET n  == IntermissionSeconds
           ss == n % 60
       IN  /\ nhl.kind = "ok"
           /\ nhl.val.top = OrdinalText \o " int|" \o ToString(n \div 60) \o ":"
                               \o ToString(ss \div 10) \o ToString(ss % 10)
           /\ (n = 761 /\ OrdinalText = "1st") => nhl.val.top = "1st int|12:41"
           /\ (n = 0 /\ OrdinalText = "1st") => nhl.val.top = "1st int|0:00"

\* an intermission with a one-digit seconds part and no ordinal
C12_Witness ==
    /\ TodayGoverns
    /\ Phase = "Live"
    /\ IntermissionActive
    /\ IsNone(TodayLine.current_period_ordinal)
    /\ IntermissionSeconds = 725
    /\ nhl.val.top = "1st int|12:05"

-----------------------------------------------------------------------------
(* Properties of the decoder (SpecDecode) *)

\* C13: an identifier that encodes season S, the playoff phase and single
\* digits round r, matchup m, game g decodes to exactly S and
\* Playoff{round r, matchup m, game g}; 2020030181 gives 2020 and {1, 8, 1}.
C13_PlayoffRoundTrip ==
    decode.done =>
       /\ decode.code = 3 =>
             /\ IsSome(decode.result)
             /\ decode.result[1].season = decode.season
             /\ decode.result[1].game_type.tag = "Playoff"
             /\ decode.result[1].game_type.pgn =
                   Some([round |-> decode.round, matchup |-> decode.matchup,
                         game |-> decode.game])
       /\ decode.game_id = 2020030181 =>
             /\ decode.result[1].season = 2020
             /\ decode.result[1].game_type.pgn =
                   Some([round |-> 1, matchup |-> 8, game |-> 1])

\* the identifier of the test, decoded
C13_Witness ==
    /\ decode.done
    /\ decode.game_id = 2020030181
    /\ decode.result[1].game_type.tag = "Playoff"
    /\ decode.result[1].game_type.pgn[1].matchup = 8

\* C14: every identifier decodes, by base-10 slicing: season = id div
\* 1,000,000; the next two digits are the phase code; Playoff only for code
\* 03, Preseason only for code 01, Regular for every other code; a playoff
\* identifier gives the three following single digits as round, matchup, game.
C14_DigitSlicing ==
    decode.done =>
       LET id   == decode.game_id
           code == (id \div 10000) % 100
           gt   == decode.result[1].game_type
       IN  /\ IsSome(decode.result)
           /\ decode.result[1].season = id \div 1000000
           /\ gt.tag = "Playoff" <=> code = 3
           /\ gt.tag = "Preseason" <=> code = 1
           /\ gt.tag = "Regular" <=> code \notin {1, 3}
           /\ gt.tag = "Playoff" =>
                 /\ gt.pgn[1].round = (id \div 100) % 10
                 /\ gt.pgn[1].matchup = (id \div 10) % 10
                 /\ gt.pgn[1].game = id % 10

====
